---- MODULE Spec2Model ----
(***************************************************************************)
(* A model of the benchmark-evaluation harness of UAI_Benchmarking:        *)
(*   scripts/score_answer.py         score_answer, call_judge_llm          *)
(*   scripts/ask_model.py            ask_model                             *)
(*   scripts/evaluation_pipeline.py  evaluate_document,                    *)
(*                                   evaluate_precomputed_answers          *)
(*   scripts/calc_scores.py          load_results, aggregate               *)
(*                                                                         *)
(* JSON values are records [k, n, s]: k is the kind, n the number (floats  *)
(* are counted in tenths, so 0.4 is n = 4 and 1.0 is n = 10; for a list n  *)
(* is its length) and s the text. A key a dict does not have is Absent.    *)
(***************************************************************************)
EXTENDS Integers, Sequences, FiniteSets, TLC

(***************************************************************************)
(* JSON values                                                             *)
(***************************************************************************)
Absent == [k |-> "absent", n |-> 0, s |-> ""]
Null == [k |-> "null", n |-> 0, s |-> ""]
Bool(b) == [k |-> "bool", n |-> IF b THEN 1 ELSE 0, s |-> ""]
Num(x) == [k |-> "num", n |-> x, s |-> ""]
Str(t) == [k |-> "str", n |-> 0, s |-> t]
List(len) == [k |-> "list", n |-> len, s |-> ""]
\* an integer literal beyond the range of a double, such as 10**400
BigInt == [k |-> "bigint", n |-> 0, s |-> ""]
NaN == [k |-> "nan", n |-> 0, s |-> ""]

Float1 == Num(10)
Float0 == Num(0)

\* dict.get(key): None when the key is missing
Get(d, key) == IF d[key].k = "absent" THEN Null ELSE d[key]

\* dict.get(key, default)
GetDefault(d, key, default) == IF d[key].k = "absent" THEN default ELSE d[key]

\* key in dict
HasKey(d, key) == d[key].k # "absent"

\* bool(v)
Truthy(v) ==
  CASE v.k = "null" -> FALSE
    [] v.k = "absent" -> FALSE
    [] v.k = "bool" -> v.n = 1
    [] v.k = "num" -> v.n # 0
    [] v.k = "str" -> v.s # ""
    [] v.k = "list" -> v.n > 0
    [] OTHER -> TRUE

\* x or y
PyOr(x, y) == IF Truthy(x) THEN x ELSE y

\* float(text) for the texts the model uses; any other text is a ValueError
StrToFloat(t) ==
  CASE t = "0.4" -> [ok |-> TRUE, v |-> Num(4), exc |-> ""]
    [] t = " 1 " -> [ok |-> TRUE, v |-> Num(10), exc |-> ""]
    [] t = "nan" -> [ok |-> TRUE, v |-> NaN, exc |-> ""]
    [] OTHER -> [ok |-> FALSE, v |-> Null, exc |-> "ValueError"]

\* float(v)
PyFloat(v) ==
  CASE v.k = "num" -> [ok |-> TRUE, v |-> v, exc |-> ""]
    [] v.k = "nan" -> [ok |-> TRUE, v |-> v, exc |-> ""]
    [] v.k = "bool" -> [ok |-> TRUE, v |-> Num(10 * v.n), exc |-> ""]
    [] v.k = "str" -> StrToFloat(v.s)
    [] v.k = "bigint" -> [ok |-> FALSE, v |-> Null, exc |-> "OverflowError"]
    [] OTHER -> [ok |-> FALSE, v |-> Null, exc |-> "TypeError"]

(***************************************************************************)
(* score_answer: the normalisation of the judge's reply                    *)
(***************************************************************************)
\* the result of a call: a value, or the exception it raised
Ok(v) == [ok |-> TRUE, val |-> v, err |-> ""]
Raise(msg) == [ok |-> FALSE, val |-> Null, err |-> msg]

\* a question_score passed through without float()
QuestionScore_Raw(judge_result) ==
  LET question_score == Get(judge_result, "question_score")
  IN  IF question_score.k = "null"
        THEN Ok(IF Truthy(Get(judge_result, "is_correct")) THEN Float1 ELSE Float0)
        ELSE Ok(question_score)

\* question_score as score_answer settles it, or the exception float() lets through
QuestionScore(judge_result) ==
  LET is_correct == Truthy(Get(judge_result, "is_correct"))
      derived == IF is_correct THEN Float1 ELSE Float0
      question_score == Get(judge_result, "question_score")
      f == PyFloat(question_score)
  IN  IF question_score.k = "null" THEN Ok(derived)
      ELSE IF f.ok THEN Ok(f.v)
      ELSE IF f.exc \in {"TypeError", "ValueError"} THEN Ok(derived)
      ELSE Raise("int too large to convert to float")

\* a fallback chain that looks at justification first
JudgeReasoning_Swapped(judge_result) ==
  GetDefault(judge_result, "justification",
             GetDefault(judge_result, "judge_reasoning", Str("")))

\* judge_result.get("judge_reasoning", judge_result.get("justification", ""))
JudgeReasoning(judge_result) ==
  GetDefault(judge_result, "judge_reasoning",
             GetDefault(judge_result, "justification", Str("")))

\* a ScoreRecord whose rationale_score copies question_score
NormalizeJudge_RationaleFromScore(judge_result) ==
  LET is_correct == Truthy(Get(judge_result, "is_correct"))
      has_value == Truthy(Get(judge_result, "has_value"))
      error_type == Get(judge_result, "error_type")
      judge_reasoning == JudgeReasoning(judge_result)
      qs == QuestionScore(judge_result)
  IN  IF ~qs.ok THEN Raise(qs.err)
      ELSE Ok([correctness_score |-> qs.val,
               correctness_justification |-> judge_reasoning,
               rationale_score |-> qs.val,
               rationale_justification |-> PyOr(error_type, judge_reasoning),
               is_correct |-> Bool(is_correct),
               has_value |-> Bool(has_value),
               error_type |-> error_type,
               judge_reasoning |-> judge_reasoning,
               question_score |-> qs.val])

\* lines 133-162 of score_answer: the ScoreRecord built from the judge's reply
NormalizeJudge(judge_result) ==
  LET is_correct == Truthy(Get(judge_result, "is_correct"))
      has_value == Truthy(Get(judge_result, "has_value"))
      error_type == Get(judge_result, "error_type")
      judge_reasoning == JudgeReasoning(judge_result)
      qs == QuestionScore(judge_result)
  IN  IF ~qs.ok THEN Raise(qs.err)
      ELSE Ok([correctness_score |-> qs.val,
               correctness_justification |-> judge_reasoning,
               rationale_score |-> IF is_correct THEN Float1 ELSE Float0,
               rationale_justification |-> PyOr(error_type, judge_reasoning),
               is_correct |-> Bool(is_correct),
               has_value |-> Bool(has_value),
               error_type |-> error_type,
               judge_reasoning |-> judge_reasoning,
               question_score |-> qs.val])

(***************************************************************************)
(* Allow-lists, tracks and the environment                                 *)
(***************************************************************************)
EXTRACTOR_MODELS ==
  {"anthropic/claude-4.5-opus", "openai/gpt-5.1", "google/gemini-3-pro-preview"}

JUDGE_MODELS == {"deepseek/deepseek-v3.2", "xai/grok-4.1"}

\* the keys of TRACK_CONFIG, which are also the keys of BENCHMARK_PROMPTS
TRACK_CONFIG == {"A", "B"}

BENCHMARK_PROMPTS == {"A", "B"}

\* str.upper() on the benchmark letters the model uses
Upper(t) ==
  CASE t = "a" -> "A"
    [] t = "b" -> "B"
    [] t = "c" -> "C"
    [] OTHER -> t

\* model_name.startswith("google/")
IsGoogle(model_name) == model_name \in {"google/gemini-3-pro-preview"}

\* the credentials of the environment: which API keys are set
KeySets == {"all", "no_openrouter", "no_gemini"}

HasOpenRouterKey(keys) == keys # "no_openrouter"
HasGeminiKey(keys) == keys # "no_gemini"

\* a model answer: the dict {answer, rationale}, or None
ModelAnswer(a, r) == [k |-> "dict", answer |-> a, rationale |-> r]
NoAnswer == [k |-> "null", answer |-> Absent, rationale |-> Absent]

\* the outcome of a call together with whether it reached the network
Called(res, net) == [res |-> res, net |-> net]

(***************************************************************************)
(* ask_model                                                               *)
(*   reply is what the provider sends back: an HTTP error, or a text that  *)
(*   parse_extractor_output rejects ("malformed") or parses to a          *)
(*   non-object, to an object missing a key, or to {answer, rationale}     *)
(***************************************************************************)
ExtractorReplies == {"http_error", "malformed", "not_object", "missing_keys", "answer"}

\* call_openrouter_extractor and call_gemini_native, from the key check on
CallExtractor(model_name, keys, reply) ==
  IF IsGoogle(model_name) /\ ~HasGeminiKey(keys)
    THEN Called(Raise("Missing GEMINI_API_KEY in environment."), FALSE)
  ELSE IF ~IsGoogle(model_name) /\ ~HasOpenRouterKey(keys)
    THEN Called(Raise("Missing OPENROUTER_API_KEY in environment."), FALSE)
  ELSE IF reply = "http_error"
    THEN Called(Raise("HTTPError"), TRUE)
  ELSE IF reply = "malformed"
    THEN Called(Raise("Extractor returned malformed JSON"), TRUE)
  ELSE Called(Ok(reply), TRUE)

ask_model(model_name, keys, reply) ==
  IF model_name \notin EXTRACTOR_MODELS
    THEN Called(Raise("Model not allowed"), FALSE)
  ELSE LET c == CallExtractor(model_name, keys, reply)
       IN  IF ~c.res.ok THEN c
           ELSE IF reply = "not_object"
             THEN Called(Raise("Extractor response must be a JSON object"), TRUE)
           ELSE IF reply = "missing_keys"
             THEN Called(Raise("Extractor JSON missing required keys"), TRUE)
           ELSE Called(Ok(ModelAnswer(Str("ans"), Str("why"))), TRUE)

(***************************************************************************)
(* call_judge_llm and score_answer                                         *)
(*   reply is what the judge sends back: status "http_error", "malformed"  *)
(*   (no JSON in the text), "not_object" (JSON that is not an object) or   *)
(*   "json" with the parsed object in field json                           *)
(***************************************************************************)
JudgeObj(ic, hv, et, jr, ju, qs) ==
  [is_correct |-> ic, has_value |-> hv, error_type |-> et,
   judge_reasoning |-> jr, justification |-> ju, question_score |-> qs]

EmptyObj == JudgeObj(Absent, Absent, Absent, Absent, Absent, Absent)

JudgeReply(status, obj) == [status |-> status, json |-> obj]

call_judge_llm(model, keys, reply) ==
  IF ~HasOpenRouterKey(keys)
    THEN Called(Raise("Missing OPENROUTER_API_KEY in .env"), FALSE)
  ELSE IF model \notin JUDGE_MODELS
    THEN Called(Raise("Judge model is not supported"), FALSE)
  ELSE IF reply.status = "http_error"
    THEN Called(Raise("HTTPError"), TRUE)
  ELSE IF reply.status = "malformed"
    THEN Called(Raise("Judge returned malformed JSON"), TRUE)
  ELSE Called(Ok(reply), TRUE)

score_answer(model_answer_obj, judge_model, benchmark_type, keys, reply) ==
  IF Upper(benchmark_type) \notin BENCHMARK_PROMPTS
    THEN Called(Raise("Unknown benchmark type"), FALSE)
  ELSE IF model_answer_obj.k # "dict"
    THEN Called(Raise("object has no attribute 'get'"), FALSE)
  ELSE LET c == call_judge_llm(judge_model, keys, reply)
       IN  IF ~c.res.ok THEN c
           ELSE IF reply.status = "not_object"
             THEN Called(Raise("'list' object has no attribute 'get'"), TRUE)
           ELSE Called(NormalizeJudge(reply.json), TRUE)

(***************************************************************************)
(* Question texts are sequences of characters, so that str.strip() is      *)
(* computed and not assumed.                                               *)
(***************************************************************************)
IsSpace(c) == c \in {" ", "\n", "\t"}

RECURSIVE LStrip(_)
LStrip(t) == IF t # <<>> /\ IsSpace(Head(t)) THEN LStrip(Tail(t)) ELSE t

RECURSIVE RStrip(_)
RStrip(t) ==
  IF t # <<>> /\ IsSpace(t[Len(t)]) THEN RStrip(SubSeq(t, 1, Len(t) - 1)) ELSE t

\* a strip() that trims the left end only
Strip_Left(t) == LStrip(t)

\* str.strip()
Strip(t) == RStrip(LStrip(t))

\* {entry["question"].strip(): entry for entry in ground_truth_entries}:
\* the keys of the dict, and the entry a key maps to (a later entry replaces
\* an earlier one with the same key)
GtKeys(entries) == {Strip(entries[i].question) : i \in 1..Len(entries)}

GtLookup(entries, key) ==
  LET hits == {i \in 1..Len(entries) : Strip(entries[i].question) = key}
      last == CHOOSE i \in hits : \A j \in hits : j <= i
  IN  entries[last]

(***************************************************************************)
(* Rows                                                                    *)
(***************************************************************************)
Metadata(document, extractor, judge, source, benchmark, category, error) ==
  [document |-> document, extractor_model |-> extractor, judge_model |-> judge,
   source_answers_file |-> source, benchmark |-> benchmark,
   category |-> category, error |-> error]

NoMetadata == Metadata(Absent, Absent, Absent, Absent, Absent, Absent, Absent)

\* the scores of a fallback row: the four legacy fields only
FallbackScores(e) ==
  [correctness_score |-> Float0,
   correctness_justification |-> Str("Error: " \o e),
   rationale_score |-> Float0,
   rationale_justification |-> Str("Error: " \o e),
   is_correct |-> Absent,
   has_value |-> Absent,
   error_type |-> Absent,
   judge_reasoning |-> Absent,
   question_score |-> Absent]

Row(question_text, model_answer, scores, metadata) ==
  [question |-> question_text, model_answer |-> model_answer,
   scores |-> scores, metadata |-> metadata]

doc_name == "doc"
answers_path == "answers.jsonl"

\* str(KeyError(...)) is the repr of the message, quotes included
MissingGroundTruth == "'Missing ground truth for question'"

(***************************************************************************)
(* Inputs of a run                                                         *)
(***************************************************************************)
\* the longest questions file, or answers file, of a run
MaxQuestions == 2

Question(text, category) == [question |-> text, category |-> category]

QuestionPool ==
  {Question(<<" ", "a", " ">>, Str("Cat1")),
   Question(<<"b">>, Absent),
   Question(<<"A">>, Absent)}

GtEntry(text, category) == [question |-> text, category |-> category]

GroundTruthPool ==
  {<<GtEntry(<<"a", "\n">>, Str("CatG"))>>,
   <<GtEntry(<<"a">>, Absent), GtEntry(<<"\t", "b">>, Str("CatG"))>>}

AnswersEntry(text, model_answer, answer, rationale, metadata) ==
  [question |-> text, model_answer |-> model_answer, answer |-> answer,
   rationale |-> rationale, metadata |-> metadata]

AnswersPool ==
  {AnswersEntry(<<" ", "a">>, ModelAnswer(Str("ans"), Str("why")), Absent, Absent,
                [NoMetadata EXCEPT !.extractor_model = Str("openai/gpt-5.1"),
                                   !.category = Str("CatM")]),
   AnswersEntry(<<"b">>, NoAnswer, Str("flat"), Absent, NoMetadata),
   AnswersEntry(<<" ">>, NoAnswer, Absent, Absent,
                [NoMetadata EXCEPT !.category = Str("CatM")])}

SeqsUpTo(S, n) == UNION {[1..m -> S] : m \in 0..n}

ExtractorChoices == {"openai/gpt-5.1", "google/gemini-3-pro-preview", "bad/model"}
JudgeChoices == {"deepseek/deepseek-v3.2", "bad/judge"}
BenchmarkChoices == {"b", "c"}

\* the judge replies a run of the loop draws from
LoopJudgeReplies ==
  {JudgeReply("http_error", EmptyObj),
   JudgeReply("malformed", EmptyObj),
   JudgeReply("not_object", EmptyObj),
   JudgeReply("json", [EmptyObj EXCEPT !.is_correct = Bool(TRUE)]),
   JudgeReply("json", JudgeObj(Bool(FALSE), Bool(TRUE), Str("wrong_value"),
                               Str("because"), Absent, Num(4))),
   JudgeReply("json", [EmptyObj EXCEPT !.is_correct = Bool(TRUE),
                                       !.question_score = BigInt])}

(***************************************************************************)
(* evaluate_document and evaluate_precomputed_answers                      *)
(***************************************************************************)
VARIABLES
  mode,                 \* "document" or "precomputed": the function that runs
  benchmark_type, extractor_model, judge_model,   \* the arguments
  keys,                 \* the API keys of the environment
  files,                \* which input files exist
  questions, ground_truth_entries, answers_entries,  \* the files' contents
  pc,                   \* "start", "loop", "ask", "score", "done", "aborted"
  idx,                  \* the loop index, from 1
  model_answer_obj,     \* the extractor's answer for question idx
  results, failures,    \* the function's locals
  calls,                \* the calls of ask_model and score_answer so far
  saved,                \* the lists save_jsonl has written
  fatal,                \* the exception that ended the run, "" if none
  judge_result,         \* score_answer on its own: the judge's parsed reply
  score_res,            \* score_answer on its own: what the call gave
  paths,                \* aggregate: the result files it is given
  agg_res,              \* aggregate: what the call gave
  llm_text,             \* parse_extractor_output: the text T of a reply
  parse_res,            \* parse_extractor_output: what the call on T gave
  fenced_res            \* parse_extractor_output: what it gave on T in a fence

vars ==
  <<mode, benchmark_type, extractor_model, judge_model, keys, files, questions,
    ground_truth_entries, answers_entries, pc, idx, model_answer_obj, results,
    failures, calls, saved, fatal, judge_result, score_res, paths, agg_res,
    llm_text, parse_res, fenced_res>>

\* the variables of parse_extractor_output run on its own
parseVars == <<llm_text, parse_res, fenced_res>>

\* the variables of score_answer, aggregate and parse_extractor_output run on
\* their own
outside == <<judge_result, score_res, paths, agg_res, parseVars>>

\* a call not made yet
NotCalled == [ok |-> FALSE, val |-> Null, err |-> "not called"]

ParseIdle ==
  /\ llm_text = <<>>
  /\ parse_res = NotCalled
  /\ fenced_res = NotCalled

OutsideIdle ==
  /\ judge_result = EmptyObj
  /\ score_res = NotCalled
  /\ paths = <<>>
  /\ agg_res = NotCalled
  /\ ParseIdle

inputs ==
  <<mode, benchmark_type, extractor_model, judge_model, keys, files, questions,
    ground_truth_entries, answers_entries>>

benchmark_key == Upper(benchmark_type)

Init ==
  /\ mode \in {"document", "precomputed"}
  /\ benchmark_type \in BenchmarkChoices
  /\ judge_model \in JudgeChoices
  /\ keys \in KeySets
  /\ ground_truth_entries \in GroundTruthPool
  /\ IF mode = "document"
       THEN /\ extractor_model \in ExtractorChoices
            /\ files \in [{"pdf", "questions", "ground_truth"} -> BOOLEAN]
            /\ questions \in SeqsUpTo(QuestionPool, MaxQuestions)
            /\ answers_entries = <<>>
       ELSE /\ extractor_model = "openai/gpt-5.1"
            /\ files \in [{"answers", "ground_truth"} -> BOOLEAN]
            /\ questions = <<>>
            /\ answers_entries \in SeqsUpTo(AnswersPool, MaxQuestions)
  /\ pc = "start"
  /\ idx = 0
  /\ model_answer_obj = NoAnswer
  /\ results = <<>>
  /\ failures = 0
  /\ calls = <<>>
  /\ saved = <<>>
  /\ fatal = ""
  /\ OutsideIdle

Abort(e) ==
  /\ pc' = "aborted"
  /\ fatal' = e
  /\ UNCHANGED <<idx, model_answer_obj, results, failures, calls, saved>>

EnterLoop ==
  /\ pc' = "loop"
  /\ idx' = 1
  /\ results' = <<>>
  /\ failures' = 0
  /\ UNCHANGED <<model_answer_obj, calls, saved, fatal>>

\* evaluate_document, lines 41-88: the checks and the loading of the inputs
Start ==
  /\ mode = "document"
  /\ pc = "start"
  /\ IF benchmark_key \notin TRACK_CONFIG THEN Abort("Unknown benchmark type")
     ELSE IF ~files["pdf"] THEN Abort("PDF not found")
     ELSE IF ~files["questions"] THEN Abort("No such file: questions")
     ELSE IF ~files["ground_truth"] THEN Abort("No such file: ground truth")
     ELSE EnterLoop
  /\ UNCHANGED <<inputs, outside>>

\* the call of ask_model or score_answer for question idx: whether it reached
\* the network, whether it returned, and the message of the exception if not
Call(fn, c) ==
  Append(calls, [fn |-> fn, idx |-> idx, net |-> c.net, ok |-> c.res.ok,
                 err |-> c.res.err])

\* a fallback row that drops the message from its metadata
FallbackRow_NoError(question_text, category, e) ==
  Row(question_text, NoAnswer, FallbackScores(e),
      Metadata(Str(doc_name), Str(extractor_model), Str(judge_model), Absent,
               Str(benchmark_key), category, Absent))

\* the except branch of evaluate_document, lines 141-166
FallbackRow(question_text, category, e) ==
  Row(question_text, NoAnswer, FallbackScores(e),
      Metadata(Str(doc_name), Str(extractor_model), Str(judge_model), Absent,
               Str(benchmark_key), category, Str(e)))

\* the success branch of evaluate_document, lines 127-139
ResultRow(question_text, category, answer, score_obj) ==
  Row(question_text, answer, score_obj,
      Metadata(Str(doc_name), Str(extractor_model), Str(judge_model), Absent,
               Str(benchmark_key), category, Absent))

\* an except branch that appends its row and leaves the counter alone
Fail_NoCount(row) ==
  /\ failures' = failures
  /\ results' = Append(results, row)
  /\ idx' = idx + 1
  /\ pc' = "loop"

Fail(row) ==
  /\ failures' = failures + 1
  /\ results' = Append(results, row)
  /\ idx' = idx + 1
  /\ pc' = "loop"

question_text == Strip(questions[idx].question)
category == GetDefault(questions[idx], "category", Str("Uncategorized"))

\* lines 93-103: the top of an iteration and the ground-truth lookup
Lookup ==
  /\ mode = "document"
  /\ pc = "loop"
  /\ idx <= Len(questions)
  /\ IF question_text \notin GtKeys(ground_truth_entries)
       THEN Fail(FallbackRow(question_text, category, MissingGroundTruth))
       ELSE /\ pc' = "ask"
            /\ UNCHANGED <<idx, results, failures>>
  /\ UNCHANGED <<model_answer_obj, calls, saved, fatal>>
  /\ UNCHANGED <<inputs, outside>>

\* an extractor call whose failure is recorded and then judged all the same
AskModel_ScoreAnyway ==
  /\ pc = "ask"
  /\ \E reply \in ExtractorReplies :
       LET c == ask_model(extractor_model, keys, reply)
       IN  /\ calls' = Call("ask_model", c)
           /\ model_answer_obj' = ModelAnswer(Str(""), Str(""))
           /\ pc' = "score"
           /\ UNCHANGED <<idx, results, failures>>
  /\ UNCHANGED <<saved, fatal>>
  /\ UNCHANGED <<inputs, outside>>

\* lines 108-112: the extractor call
AskModel ==
  /\ pc = "ask"
  /\ \E reply \in ExtractorReplies :
       LET c == ask_model(extractor_model, keys, reply)
       IN  /\ calls' = Call("ask_model", c)
           /\ IF c.res.ok
                THEN /\ model_answer_obj' = c.res.val
                     /\ pc' = "score"
                     /\ UNCHANGED <<idx, results, failures>>
                ELSE /\ Fail(FallbackRow(question_text, category, c.res.err))
                     /\ UNCHANGED model_answer_obj
  /\ UNCHANGED <<saved, fatal>>
  /\ UNCHANGED <<inputs, outside>>

\* lines 117-139: the judge call and the row of a scored question
ScoreAnswer ==
  /\ pc = "score"
  /\ \E reply \in LoopJudgeReplies :
       LET c == score_answer(model_answer_obj, judge_model, benchmark_key, keys, reply)
       IN  /\ calls' = Call("score_answer", c)
           /\ IF c.res.ok
                THEN /\ results' = Append(results,
                            ResultRow(question_text, category, model_answer_obj, c.res.val))
                     /\ idx' = idx + 1
                     /\ pc' = "loop"
                     /\ UNCHANGED failures
                ELSE Fail(FallbackRow(question_text, category, c.res.err))
  /\ UNCHANGED <<model_answer_obj, saved, fatal>>
  /\ UNCHANGED <<inputs, outside>>

\* a save that happens one iteration early
Save_Early ==
  /\ pc = "loop"
  /\ idx >= (IF mode = "document" THEN Len(questions) ELSE Len(answers_entries))
  /\ saved' = Append(saved, results)
  /\ pc' = "done"
  /\ UNCHANGED <<idx, model_answer_obj, results, failures, calls, fatal>>
  /\ UNCHANGED <<inputs, outside>>

\* lines 173-179 and 321-327: save_jsonl(out_path, results) after the loop
Save ==
  /\ pc = "loop"
  /\ idx > (IF mode = "document" THEN Len(questions) ELSE Len(answers_entries))
  /\ saved' = Append(saved, results)
  /\ pc' = "done"
  /\ UNCHANGED <<idx, model_answer_obj, results, failures, calls, fatal>>
  /\ UNCHANGED <<inputs, outside>>

\* evaluate_precomputed_answers, lines 197-239
PStart ==
  /\ mode = "precomputed"
  /\ pc = "start"
  /\ IF benchmark_key \notin TRACK_CONFIG THEN Abort("Unknown benchmark type")
     ELSE IF ~files["answers"] THEN Abort("Answers file not found")
     ELSE IF ~files["ground_truth"] THEN Abort("Ground truth not found")
     ELSE IF answers_entries = <<>> THEN Abort("No entries found in answers file")
     ELSE EnterLoop
  /\ UNCHANGED <<inputs, outside>>

\* a flat answer whose missing fields are left null
PrecomputedAnswer_NoDefault(entry) ==
  IF entry.model_answer.k = "null"
    THEN ModelAnswer(Get(entry, "answer"), Get(entry, "rationale"))
    ELSE entry.model_answer

\* lines 255-261: the nested model_answer, or the flat {answer, rationale}
PrecomputedAnswer(entry) ==
  IF entry.model_answer.k = "null"
    THEN ModelAnswer(GetDefault(entry, "answer", Str("")),
                     GetDefault(entry, "rationale", Str("")))
    ELSE entry.model_answer

\* lines 293-297: the category of a fallback row
ErrCategory(entry, cat) ==
  LET fallback_cat ==
        IF entry.metadata # NoMetadata
          THEN GetDefault(entry.metadata, "category", Str("Uncategorized"))
          ELSE Str("Uncategorized")
  IN  PyOr(cat, fallback_cat)

\* the except branch of evaluate_precomputed_answers, lines 287-317
PFallbackRow(entry, text, cat, e) ==
  Row(text, entry.model_answer, FallbackScores(e),
      Metadata(Str(doc_name), Absent, Str(judge_model), Str(answers_path),
               Str(benchmark_key), ErrCategory(entry, cat), Str(e)))

\* the success branch of evaluate_precomputed_answers, lines 270-285
PResultRow(entry, text, cat, answer, score_obj) ==
  Row(text, answer, score_obj,
      [entry.metadata EXCEPT !.document = Str(doc_name),
                             !.judge_model = Str(judge_model),
                             !.source_answers_file = Str(answers_path),
                             !.benchmark = Str(benchmark_key),
                             !.category = cat])

\* lines 241-319: one iteration of the loop over the answers file
PJudge ==
  /\ mode = "precomputed"
  /\ pc = "loop"
  /\ idx <= Len(answers_entries)
  /\ LET entry == answers_entries[idx]
         text == Strip(entry.question)
     IN  IF text = <<>>
           THEN /\ Fail(PFallbackRow(entry, text, Null,
                                     "Missing question text in answers file."))
                /\ UNCHANGED calls
         ELSE IF text \notin GtKeys(ground_truth_entries)
           THEN /\ Fail(PFallbackRow(entry, text, Null, MissingGroundTruth))
                /\ UNCHANGED calls
         ELSE
           \E reply \in LoopJudgeReplies :
             LET gt_entry == GtLookup(ground_truth_entries, text)
                 cat == GetDefault(gt_entry, "category", Str("Uncategorized"))
                 answer == PrecomputedAnswer(entry)
                 c == score_answer(answer, judge_model, benchmark_key, keys, reply)
             IN  /\ calls' = Call("score_answer", c)
                 /\ IF c.res.ok
                      THEN /\ results' = Append(results,
                                  PResultRow(entry, text, cat, answer, c.res.val))
                           /\ idx' = idx + 1
                           /\ pc' = "loop"
                           /\ UNCHANGED failures
                      ELSE Fail(PFallbackRow(entry, text, cat, c.res.err))
  /\ UNCHANGED <<model_answer_obj, saved, fatal>>
  /\ UNCHANGED <<inputs, outside>>

Next == Start \/ Lookup \/ AskModel \/ ScoreAnswer \/ Save \/ PStart \/ PJudge

Spec == Init /\ [][Next]_vars

(***************************************************************************)
(* Properties of the evaluation loop                                       *)
(***************************************************************************)
\* the number of questions, or answers rows, of the run
NumItems == IF mode = "document" THEN Len(questions) ELSE Len(answers_entries)

\* the raw question text of item i
ItemText(i) ==
  IF mode = "document" THEN questions[i].question ELSE answers_entries[i].question

\* u is t without its leading and trailing whitespace
IsTrimOf(u, t) ==
  \E a, b \in 0..Len(t) :
    /\ a + b <= Len(t)
    /\ u = SubSeq(t, a + 1, Len(t) - b)
    /\ \A i \in 1..a : IsSpace(t[i])
    /\ \A i \in (Len(t) - b + 1)..Len(t) : IsSpace(t[i])
    /\ u = <<>> \/ (~IsSpace(u[1]) /\ ~IsSpace(u[Len(u)]))

\* some ground-truth entry has the same trimmed question text as item i
HasGroundTruth(i) ==
  \E j \in 1..Len(ground_truth_entries) :
    \E u \in {SubSeq(ItemText(i), a, b) : a \in 1..(Len(ItemText(i)) + 1),
                                          b \in 0..Len(ItemText(i))} :
      /\ IsTrimOf(u, ItemText(i))
      /\ IsTrimOf(u, ground_truth_entries[j].question)

IsNumeric(v) == v.k \in {"num", "nan"}

HasError(row) == row.metadata.error # Absent

\* C1: in evaluate_document, every call of ask_model or score_answer that
\* raised has left, at its question's place in results, a fallback row with
\* both scores 0.0, the message embedded in both justifications and the
\* non-empty message in metadata.error; and once in the loop the run is never
\* aborted: it ends with one row per question.
C1_FailureIsolated ==
  mode = "document" =>
    /\ \A i \in 1..Len(calls) :
         ~calls[i].ok =>
           LET k == calls[i].idx
               e == calls[i].err
           IN  /\ k <= Len(results)
               /\ e # ""
               /\ results[k].scores.correctness_score = Float0
               /\ results[k].scores.rationale_score = Float0
               /\ results[k].scores.correctness_justification = Str("Error: " \o e)
               /\ results[k].scores.rationale_justification = Str("Error: " \o e)
               /\ results[k].metadata.error = Str(e)
    /\ pc = "aborted" => calls = <<>> /\ results = <<>>
    /\ pc = "done" => Len(results) = Len(questions)

\* a finished run whose first question failed in a call and whose second
\* question was scored
C1_Witness ==
  /\ mode = "document"
  /\ pc = "done"
  /\ Len(results) >= 2
  /\ \E i \in 1..Len(calls) : ~calls[i].ok /\ calls[i].idx = 1
  /\ HasError(results[1])
  /\ ~HasError(results[2])

\* C2: a run of evaluate_document with a disallowed extractor or judge
\* identifier makes no network call, produces no row and persists nothing.
C2_DisallowedModelIsFatal ==
  (/\ mode = "document"
   /\ extractor_model \notin EXTRACTOR_MODELS \/ judge_model \notin JUDGE_MODELS)
  => /\ \A i \in 1..Len(calls) : ~calls[i].net
     /\ results = <<>>
     /\ saved = <<>>

\* C3 as stated: every row has correctness_score, rationale_score and
\* question_score present and numeric, all 0.0 in a fallback row.
C3_AllScoreFieldsNumeric ==
  \A i \in 1..Len(results) :
    LET sc == results[i].scores
    IN  /\ IsNumeric(sc.correctness_score)
        /\ IsNumeric(sc.rationale_score)
        /\ IsNumeric(sc.question_score)
        /\ HasError(results[i]) =>
             /\ sc.correctness_score = Float0
             /\ sc.rationale_score = Float0
             /\ sc.question_score = Float0

\* C3 as amended: every row has correctness_score and rationale_score present
\* and numeric, both 0.0 in a fallback row; question_score is present and
\* numeric in a row produced on success and absent from a fallback row.
C3_LegacyScoresNumeric ==
  \A i \in 1..Len(results) :
    LET sc == results[i].scores
    IN  /\ IsNumeric(sc.correctness_score)
        /\ IsNumeric(sc.rationale_score)
        /\ IF HasError(results[i])
             THEN /\ sc.correctness_score = Float0
                  /\ sc.rationale_score = Float0
                  /\ sc.question_score = Absent
             ELSE IsNumeric(sc.question_score)

\* a fallback row and a scored row side by side
C3_Witness ==
  /\ Len(results) >= 2
  /\ \E i, j \in 1..Len(results) : HasError(results[i]) /\ ~HasError(results[j])

\* C4: save_jsonl is called at most once, exactly when the run is done, with
\* the full list of results, one row per question; an aborted run has saved
\* nothing.
C4_PersistOnce ==
  /\ Len(saved) <= 1
  /\ pc = "done" <=> Len(saved) = 1
  /\ saved # <<>> => saved[1] = results /\ Len(results) = NumItems
  /\ pc = "aborted" => saved = <<>> /\ results = <<>>

\* a finished run that saved fallback rows and scored rows together
C4_Witness ==
  /\ pc = "done"
  /\ Len(saved) = 1
  /\ \E i, j \in 1..Len(saved[1]) : HasError(saved[1][i]) /\ ~HasError(saved[1][j])

\* C5: in both functions the row of a processed question carries the trimmed
\* question text; its error is the missing-ground-truth message exactly when
\* the trimmed text is non-empty and no ground-truth entry has the same
\* trimmed text; such a row is a zero-score fallback row reached without any
\* call, it is counted in failures, and the loop goes on to the end.
C5_MissingGroundTruth ==
  /\ \A i \in 1..Len(results) :
       /\ IsTrimOf(results[i].question, ItemText(i))
       /\ (results[i].metadata.error = Str(MissingGroundTruth))
            <=> (results[i].question # <<>> /\ ~HasGroundTruth(i))
       /\ ~HasGroundTruth(i) =>
            /\ HasError(results[i])
            /\ results[i].scores.correctness_score = Float0
            /\ results[i].scores.rationale_score = Float0
            /\ \A c \in 1..Len(calls) : calls[c].idx # i
  /\ failures = Cardinality({i \in 1..Len(results) : HasError(results[i])})
  /\ pc = "aborted" => results = <<>>
  /\ pc = "done" => Len(results) = NumItems

\* a finished run whose first question has no ground truth, and whose second
\* matches a ground-truth entry only after trimming and was scored
C5_Witness ==
  /\ pc = "done"
  /\ Len(results) >= 2
  /\ ~HasGroundTruth(1)
  /\ results[1].metadata.error = Str(MissingGroundTruth)
  /\ HasGroundTruth(2)
  /\ results[2].question # ItemText(2)
  /\ ~HasError(results[2])

\* C6: in evaluate_document the calls are ordered by question; a question has
\* at most one ask_model call, made only if it has ground truth, and at most
\* one score_answer call, made only after its ask_model call returned; and no
\* call of a question is made before the rows of all earlier questions are in
\* results.
C6_Sequential ==
  mode = "document" =>
    /\ \A i, j \in 1..Len(calls) :
         i < j =>
           \/ calls[i].idx < calls[j].idx
           \/ /\ calls[i].idx = calls[j].idx
              /\ calls[i].fn = "ask_model"
              /\ calls[i].ok
              /\ calls[j].fn = "score_answer"
    /\ \A j \in 1..Len(calls) :
         /\ calls[j].fn = "score_answer" =>
              \E i \in 1..(j - 1) :
                calls[i].idx = calls[j].idx /\ calls[i].fn = "ask_model" /\ calls[i].ok
         /\ calls[j].fn = "ask_model" => HasGroundTruth(calls[j].idx)
         /\ calls[j].idx <= Len(results) + 1
         /\ calls[j].idx = Len(results) + 1 =>
              /\ pc = "score"
              /\ calls[j].fn = "ask_model"
              /\ calls[j].ok

\* a finished run where the first question failed in ask_model, so was never
\* judged, and the second was asked and judged
C6_Witness ==
  /\ mode = "document"
  /\ pc = "done"
  /\ Len(calls) = 3
  /\ calls[1].fn = "ask_model" /\ calls[1].idx = 1 /\ ~calls[1].ok
  /\ calls[2].fn = "ask_model" /\ calls[2].idx = 2
  /\ calls[3].fn = "score_answer" /\ calls[3].idx = 2

(***************************************************************************)
(* score_answer on its own: one call on a judge reply drawn from the       *)
(* shapes a judge can send                                                 *)
(***************************************************************************)
JudgeResults ==
  {JudgeObj(ic, hv, et, jr, ju, qs) :
     ic \in {Absent, Null, Bool(TRUE), Bool(FALSE), Str("false"), Num(0)},
     hv \in {Absent, Bool(TRUE)},
     et \in {Absent, Null, Str(""), Str("wrong_value")},
     jr \in {Absent, Null, Str("because")},
     ju \in {Absent, Null, Str("just")},
     qs \in {Absent, Null, Num(4), Num(0), Str("0.4"), Str("abc"), Str("nan"),
             Bool(TRUE), List(0), BigInt}}

\* the variables of the evaluation loop while no run is going on
LoopIdle ==
  /\ mode = "idle"
  /\ benchmark_type = "b"
  /\ extractor_model = "openai/gpt-5.1"
  /\ judge_model = "deepseek/deepseek-v3.2"
  /\ keys = "all"
  /\ files = [f \in {"ground_truth"} |-> TRUE]
  /\ questions = <<>>
  /\ ground_truth_entries = <<>>
  /\ answers_entries = <<>>
  /\ pc = "idle"
  /\ idx = 0
  /\ model_answer_obj = NoAnswer
  /\ results = <<>>
  /\ failures = 0
  /\ calls = <<>>
  /\ saved = <<>>
  /\ fatal = ""

loopVars ==
  <<inputs, pc, idx, model_answer_obj, results, failures, calls, saved, fatal>>

ScoreInit ==
  /\ LoopIdle
  /\ judge_result \in JudgeResults
  /\ score_res = NotCalled
  /\ paths = <<>>
  /\ agg_res = NotCalled
  /\ ParseIdle

\* score_answer(model_answer_obj, ground_truth_obj, judge_model, benchmark_type)
\* with the judge replying judge_result
Score ==
  /\ score_res = NotCalled
  /\ score_res' = score_answer(ModelAnswer(Str("ans"), Str("why")), judge_model,
                               benchmark_type, keys,
                               JudgeReply("json", judge_result)).res
  /\ UNCHANGED <<loopVars, judge_result, paths, agg_res, parseVars>>

SpecScore == ScoreInit /\ [][Score]_vars

Scored == score_res # NotCalled

\* a judge field that is there and not null
HasValue(v) == v.k \notin {"absent", "null"}

\* C7: score_answer returns, with question_score the float of the judge's
\* question_score when that is coercible to a float, and otherwise (missing,
\* null or not coercible) 1.0 if is_correct else 0.0; is_correct and has_value
\* are the truthy coercions of the judge's fields.
C7_QuestionScore ==
  Scored =>
    LET q == judge_result.question_score
        f == PyFloat(q)
        is_correct == Truthy(judge_result.is_correct)
    IN  /\ score_res.ok
        /\ score_res.val.is_correct = Bool(is_correct)
        /\ score_res.val.has_value = Bool(Truthy(judge_result.has_value))
        /\ score_res.val.question_score =
             IF HasValue(q) /\ f.ok THEN f.v
             ELSE IF is_correct THEN Float1 ELSE Float0

\* C8: in a returned ScoreRecord correctness_score is question_score and
\* rationale_score is 1.0 exactly when is_correct is true, else 0.0, whatever
\* question_score is; {is_correct: true} gives 1.0 and 1.0, and
\* {is_correct: false, question_score: 0.4} gives 0.4 and 0.0.
C8_LegacyScores ==
  (Scored /\ score_res.ok) =>
    LET rec == score_res.val
    IN  /\ rec.correctness_score = rec.question_score
        /\ rec.is_correct \in {Bool(TRUE), Bool(FALSE)}
        /\ rec.rationale_score = IF rec.is_correct = Bool(TRUE) THEN Float1 ELSE Float0
        /\ judge_result = [EmptyObj EXCEPT !.is_correct = Bool(TRUE)] =>
             rec.correctness_score = Num(10) /\ rec.rationale_score = Num(10)
        /\ judge_result = [EmptyObj EXCEPT !.is_correct = Bool(FALSE),
                                           !.question_score = Num(4)] =>
             rec.correctness_score = Num(4) /\ rec.rationale_score = Num(0)

\* the reply {is_correct: false, question_score: 0.4} has been scored
C8_Witness ==
  /\ Scored
  /\ score_res.ok
  /\ judge_result = [EmptyObj EXCEPT !.is_correct = Bool(FALSE),
                                     !.question_score = Num(4)]
  /\ score_res.val.correctness_score # score_res.val.rationale_score

\* C9 as stated: the justification text is judge_reasoning if it has a value,
\* else justification if it has a value, else the empty string;
\* correctness_justification and judge_reasoning are that text, and
\* rationale_justification is error_type when the judge gave one, else the text.
C9_NullCoalescing ==
  (Scored /\ score_res.ok) =>
    LET rec == score_res.val
        text == IF HasValue(judge_result.judge_reasoning)
                  THEN judge_result.judge_reasoning
                ELSE IF HasValue(judge_result.justification)
                  THEN judge_result.justification
                ELSE Str("")
    IN  /\ rec.correctness_justification = text
        /\ rec.judge_reasoning = text
        /\ rec.rationale_justification =
             IF Truthy(judge_result.error_type) THEN judge_result.error_type ELSE text

\* C9 as amended: the justification text is the value of judge_reasoning if
\* the judge's reply has that key, null included, else the value of
\* justification if the reply has that key, null included, else the empty
\* string; correctness_justification and judge_reasoning are that text, and
\* rationale_justification is error_type when that is truthy, else the text.
C9_KeyPresence ==
  (Scored /\ score_res.ok) =>
    LET rec == score_res.val
        text == IF judge_result.judge_reasoning # Absent
                  THEN judge_result.judge_reasoning
                ELSE IF judge_result.justification # Absent
                  THEN judge_result.justification
                ELSE Str("")
    IN  /\ rec.correctness_justification = text
        /\ rec.judge_reasoning = text
        /\ rec.rationale_justification =
             IF Truthy(judge_result.error_type) THEN judge_result.error_type ELSE text

\* a reply with a null judge_reasoning and a justification has been scored,
\* with no error_type
C9_Witness ==
  /\ Scored
  /\ score_res.ok
  /\ judge_result.judge_reasoning = Null
  /\ judge_result.justification = Str("just")
  /\ ~Truthy(judge_result.error_type)
  /\ score_res.val.judge_reasoning = Null
  /\ score_res.val.rationale_justification = Null

(***************************************************************************)
(* calc_scores.py: load_results and aggregate                              *)
(*   A file name is a sequence of tokens, for instance                     *)
(*   <<"reportX", "_", "benchmark", "_", "a", "_", "openai-gpt5", ".jsonl">>. *)
(*   A mean is the exact fraction [num, den] of the float the code         *)
(*   computes; floating-point rounding is not modelled.                    *)
(***************************************************************************)
\* str.lower() on the tokens the pattern names
LowerTok(t) ==
  CASE t \in {"benchmark", "Benchmark", "BENCHMARK"} -> "benchmark"
    [] t \in {"a", "A"} -> "a"
    [] t \in {"b", "B"} -> "b"
    [] OTHER -> t

RECURSIVE Join(_)
Join(toks) == IF toks = <<>> THEN "" ELSE Head(toks) \o Join(Tail(toks))

\* benchmark_([ab])_(.+?)\.jsonl$ matches from token i, ignoring case
MatchAt(name, i) ==
  /\ i + 5 <= Len(name)
  /\ LowerTok(name[i]) = "benchmark"
  /\ name[i + 1] = "_"
  /\ LowerTok(name[i + 2]) \in {"a", "b"}
  /\ name[i + 3] = "_"
  /\ name[Len(name)] = ".jsonl"

\* re.search(r"benchmark_([ab])_(.+?)\.jsonl$", filename, re.IGNORECASE):
\* the leftmost match, its group 1 upper-cased and its group 2
FileNameMatch(name) ==
  LET hits == {i \in 1..Len(name) : MatchAt(name, i)}
      i == CHOOSE h \in hits : \A g \in hits : h <= g
  IN  IF hits = {}
        THEN [benchmark_from_file |-> Null, model_name |-> "unknown_model"]
        ELSE [benchmark_from_file |-> Str(Upper(name[i + 2])),
              model_name |-> Join(SubSeq(name, i + 4, Len(name) - 1))]

\* an entry of a results file: the scores and metadata the aggregator reads
\* (a missing "scores" or "metadata" key is the dict with no key)
Entry(question_score, correctness_score, metadata) ==
  [scores |-> [question_score |-> question_score,
               correctness_score |-> correctness_score],
   metadata |-> metadata]

\* a load that keeps the extractor_model a row already carries
Loaded_KeepModel(name, entry) ==
  LET m == FileNameMatch(name)
  IN  [entry EXCEPT
         !.metadata.benchmark =
            IF entry.metadata.benchmark = Absent THEN m.benchmark_from_file
            ELSE entry.metadata.benchmark,
         !.metadata.extractor_model =
            IF entry.metadata.extractor_model = Absent THEN Str(m.model_name)
            ELSE entry.metadata.extractor_model]

\* lines 29-34 of load_results: the entry with its metadata filled in
Loaded(name, entry) ==
  LET m == FileNameMatch(name)
  IN  [entry EXCEPT
         !.metadata.benchmark =
            IF entry.metadata.benchmark = Absent THEN m.benchmark_from_file
            ELSE entry.metadata.benchmark,
         !.metadata.extractor_model = Str(m.model_name)]

RECURSIVE Flatten(_)
Flatten(ss) == IF ss = <<>> THEN <<>> ELSE Head(ss) \o Flatten(Tail(ss))

\* load_results(paths): the entries of all files in order, or FileNotFoundError
load_results(ps) ==
  IF \E f \in 1..Len(ps) : ~ps[f].exists
    THEN Raise("Results file not found")
    ELSE Ok(Flatten([f \in 1..Len(ps) |->
                       [r \in 1..Len(ps[f].entries) |->
                          Loaded(ps[f].name, ps[f].entries[r])]]))

extract_question_score(entry) ==
  IF HasKey(entry.scores, "question_score")
    THEN PyFloat(entry.scores.question_score)
  ELSE IF HasKey(entry.scores, "correctness_score")
    THEN PyFloat(entry.scores.correctness_score)
  ELSE [ok |-> TRUE, v |-> Float0, exc |-> ""]

\* lines 52-60 of aggregate: the grouping key, category and score of an entry
Grouped(entry) ==
  LET meta == entry.metadata
  IN  [key |-> <<GetDefault(meta, "extractor_model", Str("unknown_model")),
                 GetDefault(meta, "document", Str("unknown_document")),
                 GetDefault(meta, "benchmark", Str("unknown_benchmark"))>>,
       category |-> GetDefault(meta, "category", Str("Uncategorized")),
       score |-> extract_question_score(entry).v.n]

RECURSIVE SumSeq(_)
SumSeq(xs) == IF xs = <<>> THEN 0 ELSE Head(xs) + SumSeq(Tail(xs))

\* sum(values) / len(values)
Mean(values) == [num |-> SumSeq(values), den |-> Len(values)]

RatZero == [num |-> 0, den |-> 1]
RatAdd(a, b) == [num |-> a.num * b.den + b.num * a.den, den |-> a.den * b.den]
RatEq(a, b) == a.num * b.den = b.num * a.den

RECURSIVE SumRat(_)
SumRat(rs) == IF rs = <<>> THEN RatZero ELSE RatAdd(Head(rs), SumRat(Tail(rs)))

RECURSIVE SumField(_, _)
SumField(rs, field) ==
  IF rs = <<>> THEN 0 ELSE Head(rs)[field] + SumField(Tail(rs), field)

\* a mean of means that pools the rows of the groups instead
MeanRat_Weighted(rs) == [num |-> SumField(rs, "num"), den |-> SumField(rs, "den")]

\* sum(scores) / len(scores) over a list of means
MeanRat(rs) == LET t == SumRat(rs) IN [num |-> t.num, den |-> t.den * Len(rs)]

\* the distinct elements of a sequence, in the order of their first occurrence:
\* the key order of a dict filled in that order
RECURSIVE FirstSeen(_)
FirstSeen(xs) ==
  IF xs = <<>> THEN <<>>
  ELSE LET init == FirstSeen(SubSeq(xs, 1, Len(xs) - 1))
           last == xs[Len(xs)]
       IN  IF \E i \in 1..Len(init) : init[i] = last THEN init ELSE Append(init, last)

Pick(items, field) == [i \in 1..Len(items) |-> items[i][field]]

\* grouped[key][category]: the scores of the key's category, in input order
Values(items, key, cat) ==
  Pick(SelectSeq(items, LAMBDA it : it.key = key /\ it.category = cat), "score")

\* the categories of a key in the order the dict got them
Categories(items, key) ==
  FirstSeen(Pick(SelectSeq(items, LAMBDA it : it.key = key), "category"))

\* a summary whose functional_score is the mean of the category means
GroupSummary_MeanOfMeans(items, key) ==
  LET cats == Categories(items, key)
  IN  [categories |->
         [c \in {cats[i] : i \in 1..Len(cats)} |-> Mean(Values(items, key, c))],
       functional_score |->
         MeanRat([i \in 1..Len(cats) |-> Mean(Values(items, key, cats[i]))])]

\* lines 67-84 of aggregate: the category means and the flat mean of a group
GroupSummary(items, key) ==
  LET cats == Categories(items, key)
      all_scores == Flatten([i \in 1..Len(cats) |-> Values(items, key, cats[i])])
  IN  [categories |->
         [c \in {cats[i] : i \in 1..Len(cats)} |-> Mean(Values(items, key, c))],
       functional_score |->
         IF all_scores # <<>> THEN Mean(all_scores) ELSE RatZero]

\* aggregate(paths)
aggregate(ps) ==
  LET data == load_results(ps)
  IN  IF ~data.ok THEN data
      ELSE IF \E i \in 1..Len(data.val) : ~extract_question_score(data.val[i]).ok
        THEN Raise("float() argument must be a string or a number")
      ELSE
        LET items == [i \in 1..Len(data.val) |-> Grouped(data.val[i])]
            group_keys == FirstSeen(Pick(items, "key"))
            model_summaries ==
              [k \in {group_keys[i] : i \in 1..Len(group_keys)} |->
                 GroupSummary(items, k)]
            doc_scores(sel) ==
              Pick(SelectSeq([i \in 1..Len(group_keys) |->
                                [key |-> group_keys[i],
                                 score |-> model_summaries[group_keys[i]].functional_score]],
                             LAMBDA g : sel[g.key]),
                   "score")
            all_keys == {group_keys[i] : i \in 1..Len(group_keys)}
        IN  Ok([model_summaries |-> model_summaries,
                global_scores |->
                  [b \in {k[3] : k \in all_keys} |->
                     MeanRat(doc_scores([k \in all_keys |-> k[3] = b]))],
                model_benchmark_scores |->
                  [mb \in {<<k[1], k[3]>> : k \in all_keys} |->
                     MeanRat(doc_scores([k \in all_keys |-> <<k[1], k[3]>> = mb]))]])

(***************************************************************************)
(* aggregate on its own: one call on result files drawn from small pools   *)
(***************************************************************************)
\* the most files aggregate is given, and the most rows in a file
MaxFiles == 2
MaxRows == 2

AggMeta(doc, benchmark, cat, extractor) ==
  [NoMetadata EXCEPT !.document = doc, !.benchmark = benchmark,
                     !.category = cat, !.extractor_model = extractor]

\* a scored row, a fallback row, a row whose two scores differ, a row with
\* neither scores nor metadata, and a row of another document
RowPool ==
  {Entry(Num(10), Num(10), AggMeta(Str("d1"), Str("B"), Str("Cat1"), Str("other/model"))),
   Entry(Absent, Num(0), AggMeta(Str("d1"), Str("B"), Str("Cat1"), Str("other/model"))),
   Entry(Num(4), Num(10), AggMeta(Str("d1"), Str("B"), Str("Cat2"), Absent)),
   Entry(Absent, Absent, NoMetadata),
   Entry(Num(10), Absent, AggMeta(Str("d2"), Absent, Absent, Absent))}

NamePool ==
  {<<"reportX", "_", "benchmark", "_", "a", "_", "openai-gpt5", ".jsonl">>,
   <<"notes", ".jsonl">>}

ResultsFile(exists, name, entries) ==
  [exists |-> exists, name |-> name, entries |-> entries]

FilePool ==
  {ResultsFile(FALSE, <<"notes", ".jsonl">>, <<>>)}
  \cup {ResultsFile(TRUE, name, entries) :
          name \in NamePool, entries \in SeqsUpTo(RowPool, MaxRows)}

AggInit ==
  /\ LoopIdle
  /\ judge_result = EmptyObj
  /\ score_res = NotCalled
  /\ paths \in SeqsUpTo(FilePool, MaxFiles)
  /\ agg_res = NotCalled
  /\ ParseIdle

Aggregate ==
  /\ agg_res = NotCalled
  /\ agg_res' = aggregate(paths)
  /\ UNCHANGED <<loopVars, judge_result, score_res, paths, parseVars>>

SpecAgg == AggInit /\ [][Aggregate]_vars

Aggregated == agg_res # NotCalled

\* the rows of the input: file f, row r
Positions ==
  UNION {{<<f, r>> : r \in 1..Len(paths[f].entries)} : f \in 1..Len(paths)}

RowAt(p) == Loaded(paths[p[1]].name, paths[p[1]].entries[p[2]])

\* a row's score in tenths: its question_score, else its correctness_score,
\* else 0.0
RowScore(p) ==
  LET sc == paths[p[1]].entries[p[2]].scores
  IN  IF sc.question_score # Absent THEN sc.question_score.n
      ELSE IF sc.correctness_score # Absent THEN sc.correctness_score.n
      ELSE 0

RECURSIVE SumScores(_)
SumScores(ps) ==
  IF ps = {} THEN 0
  ELSE LET p == CHOOSE q \in ps : TRUE IN RowScore(p) + SumScores(ps \ {p})

\* the fraction m is total / count
IsMeanOf(m, ps) == ps # {} /\ m.den > 0 /\ m.num * Cardinality(ps) = SumScores(ps) * m.den

\* C10: for every group of aggregate each category's value is the arithmetic
\* mean of the scores of the group's rows of that category, and the group's
\* functional_score is the mean of the scores of all the group's rows; every
\* row is in a group and a category; two rows scoring 1.0 and 0.0 in one
\* category give 0.5 and 0.5.
C10_GroupMeans ==
  (Aggregated /\ agg_res.ok) =>
    LET ms == agg_res.val.model_summaries
    IN  /\ \A p \in Positions :
             /\ Grouped(RowAt(p)).key \in DOMAIN ms
             /\ Grouped(RowAt(p)).category \in DOMAIN ms[Grouped(RowAt(p)).key].categories
        /\ \A key \in DOMAIN ms :
             LET members == {p \in Positions : Grouped(RowAt(p)).key = key}
             IN  /\ IsMeanOf(ms[key].functional_score, members)
                 /\ \A cat \in DOMAIN ms[key].categories :
                      IsMeanOf(ms[key].categories[cat],
                               {p \in members : Grouped(RowAt(p)).category = cat})
        /\ \A key \in DOMAIN ms :
             (/\ Len(paths) = 1
              /\ Len(paths[1].entries) = 2
              /\ {RowScore(<<1, 1>>), RowScore(<<1, 2>>)} = {0, 10}
              /\ Grouped(RowAt(<<1, 1>>)).key = key
              /\ Grouped(RowAt(<<1, 2>>)).key = key
              /\ Grouped(RowAt(<<1, 1>>)).category = Grouped(RowAt(<<1, 2>>)).category)
             => /\ RatEq(ms[key].functional_score, [num |-> 5, den |-> 1])
                /\ \A cat \in DOMAIN ms[key].categories :
                     RatEq(ms[key].categories[cat], [num |-> 5, den |-> 1])

\* a group with one row in one category and two in another, where the flat
\* mean and the mean of the category means differ, and with a fallback row
C10_Witness ==
  /\ Aggregated
  /\ agg_res.ok
  /\ \E key \in DOMAIN agg_res.val.model_summaries :
       LET g == agg_res.val.model_summaries[key]
       IN  /\ Cardinality(DOMAIN g.categories) = 2
           /\ ~RatEq(g.functional_score,
                     MeanRat([i \in 1..2 |->
                        g.categories[Categories(
                          [j \in 1..Len(load_results(paths).val) |->
                             Grouped(load_results(paths).val[j])], key)[i]]]))
           /\ \E p \in Positions :
                /\ Grouped(RowAt(p)).key = key
                /\ paths[p[1]].entries[p[2]].scores.question_score = Absent
                /\ paths[p[1]].entries[p[2]].scores.correctness_score = Num(0)

\* the sum of the functional_scores of a set of groups
RECURSIVE SumFunctional(_, _)
SumFunctional(ks, ms) ==
  IF ks = {} THEN RatZero
  ELSE LET k == CHOOSE q \in ks : TRUE
       IN  RatAdd(ms[k].functional_score, SumFunctional(ks \ {k}, ms))

\* the fraction m is the unweighted mean of the functional_scores of the groups ks
IsGroupMean(m, ks, ms) ==
  LET t == SumFunctional(ks, ms)
  IN  ks # {} /\ m.den > 0 /\ RatEq(m, [num |-> t.num, den |-> t.den * Cardinality(ks)])

\* the rows of group key
Members(key) == {p \in Positions : Grouped(RowAt(p)).key = key}

\* C11: aggregate's score of a benchmark is the unweighted mean of the
\* functional_scores of all groups with that benchmark, and its score of a
\* (model, benchmark) pair is the unweighted mean of the functional_scores of
\* the groups with that pair; there is one such score for every benchmark and
\* pair that has a group, and a group counts once whatever its number of rows.
C11_BenchmarkMeans ==
  (Aggregated /\ agg_res.ok) =>
    LET ms == agg_res.val.model_summaries
        gs == agg_res.val.global_scores
        mbs == agg_res.val.model_benchmark_scores
    IN  /\ DOMAIN gs = {key[3] : key \in DOMAIN ms}
        /\ DOMAIN mbs = {<<key[1], key[3]>> : key \in DOMAIN ms}
        /\ \A b \in DOMAIN gs :
             IsGroupMean(gs[b], {key \in DOMAIN ms : key[3] = b}, ms)
        /\ \A mb \in DOMAIN mbs :
             IsGroupMean(mbs[mb], {key \in DOMAIN ms : <<key[1], key[3]>> = mb}, ms)

\* a benchmark with two groups of different sizes, whose score is not the
\* mean over the pooled rows of the two groups
C11_Witness ==
  /\ Aggregated
  /\ agg_res.ok
  /\ \E k1, k2 \in DOMAIN agg_res.val.model_summaries :
       /\ k1 # k2
       /\ k1[1] = k2[1]
       /\ k1[3] = k2[3]
       /\ Cardinality(Members(k1)) # Cardinality(Members(k2))
       /\ Cardinality({k \in DOMAIN agg_res.val.model_summaries : k[3] = k1[3]}) = 2
       /\ ~IsMeanOf(agg_res.val.global_scores[k1[3]], Members(k1) \cup Members(k2))
       /\ ~IsMeanOf(agg_res.val.model_benchmark_scores[<<k1[1], k1[3]>>],
                    Members(k1) \cup Members(k2))

\* the document a row is grouped under, read from the row as stored in its file
RawDocument(p) ==
  LET d == paths[p[1]].entries[p[2]].metadata.document
  IN  IF d = Absent THEN Str("unknown_document") ELSE d

RawBenchmark(p) == paths[p[1]].entries[p[2]].metadata.benchmark

RawExtractor(p) == paths[p[1]].entries[p[2]].metadata.extractor_model

GroupKeys == DOMAIN agg_res.val.model_summaries

\* C12: loading a file whose name does not match the pattern does not fail,
\* and its rows without a benchmark in their metadata are grouped under model
\* "unknown_model" and benchmark "unknown_benchmark"; the rows without a
\* benchmark of reportX_benchmark_a_openai-gpt5.jsonl are grouped under model
\* "openai-gpt5" and benchmark "A".
C12_UnmatchedFilename ==
  Aggregated =>
    /\ agg_res.ok = (\A f \in 1..Len(paths) : paths[f].exists)
    /\ agg_res.ok =>
         \A p \in Positions :
           RawBenchmark(p) = Absent =>
             /\ paths[p[1]].name = <<"notes", ".jsonl">> =>
                  <<Str("unknown_model"), RawDocument(p), Str("unknown_benchmark")>>
                    \in GroupKeys
             /\ paths[p[1]].name =
                  <<"reportX", "_", "benchmark", "_", "a", "_", "openai-gpt5", ".jsonl">> =>
                  <<Str("openai-gpt5"), RawDocument(p), Str("A")>> \in GroupKeys

\* C13 as stated: a row is grouped under the extractor_model of its metadata
\* when it has one, and under the name derived from its file's name only when
\* it has none.
C13_MetadataModelFirst ==
  (Aggregated /\ agg_res.ok) =>
    {<<key[1], key[2]>> : key \in GroupKeys} =
      {<<IF RawExtractor(p) # Absent THEN RawExtractor(p)
         ELSE Str(FileNameMatch(paths[p[1]].name).model_name),
         RawDocument(p)>> : p \in Positions}

\* C13 amended: every row is grouped under the name derived from its file's
\* name ("unknown_model" when the name does not match the pattern), whether or
\* not its metadata carries an extractor_model.
C13_FilenameModelAlways ==
  (Aggregated /\ agg_res.ok) =>
    {<<key[1], key[2]>> : key \in GroupKeys} =
      {<<Str(FileNameMatch(paths[p[1]].name).model_name), RawDocument(p)>> :
         p \in Positions}

\* a row that carries an extractor_model other than the name derived from its
\* file's name has been aggregated
C13_Witness ==
  /\ Aggregated
  /\ agg_res.ok
  /\ \E p \in Positions :
       /\ RawExtractor(p) = Str("other/model")
       /\ FileNameMatch(paths[p[1]].name).model_name = "openai-gpt5"
       /\ \E key \in GroupKeys : key[1] = Str("openai-gpt5") /\ key[2] = RawDocument(p)
       /\ \A key \in GroupKeys : key[1] # Str("other/model")

\* ---------------------------------------------------------------------
\* parse_extractor_output (ask_model.py) and the same steps of
\* call_judge_llm (score_answer.py).  A text is a sequence of characters.
\* The JSON texts considered are objects whose members are strings, and bare
\* strings, without backslash escapes.
\* ---------------------------------------------------------------------

\* the backtick character, written as a name
Backtick == "<backtick>"

At(s, i) == IF i \in 1..Len(s) THEN s[i] ELSE ""

\* raw.startswith(prefix)
StartsWith(s, prefix) ==
  Len(s) >= Len(prefix) /\ SubSeq(s, 1, Len(prefix)) = prefix

\* raw.strip(c) for a character c: every leading and trailing c is removed
RECURSIVE StripChars(_, _)
StripChars(s, c) ==
  IF s # <<>> /\ Head(s) = c THEN StripChars(Tail(s), c)
  ELSE IF s # <<>> /\ s[Len(s)] = c THEN StripChars(SubSeq(s, 1, Len(s) - 1), c)
  ELSE s

\* raw.replace(old, ""): every occurrence of old, found left to right, is removed
RECURSIVE Remove(_, _)
Remove(s, old) ==
  IF Len(s) < Len(old) THEN s
  ELSE IF StartsWith(s, old) THEN Remove(SubSeq(s, Len(old) + 1, Len(s)), old)
  ELSE <<Head(s)>> \o Remove(Tail(s), old)

\* the values json.loads gives: a dict as the set of its (key, value) items
Dict(items) == [k |-> "dict", items |-> items, chars |-> <<>>]
JStr(chars) == [k |-> "str", items |-> {}, chars |-> chars]

\* d[key] = value
Put(items, key, value) ==
  {it \in items : it[1] # key} \cup {<<key, value>>}

\* what a step of the JSON scanner gives: a value and the position after it
Scanned(val, next) == [ok |-> TRUE, val |-> val, next |-> next]
NoScan == [ok |-> FALSE, val |-> <<>>, next |-> 0]

IsJsonSpace(c) == c \in {" ", "\n", "\t", "\r"}
IsControl(c) == c \in {"\n", "\t", "\r"}

RECURSIVE SkipSpace(_, _)
SkipSpace(s, i) == IF IsJsonSpace(At(s, i)) THEN SkipSpace(s, i + 1) ELSE i

\* a JSON string whose opening quote is at i: it ends at the next quote and
\* holds no control character
ScanString(s, i) ==
  LET closes == {j \in (i + 1)..Len(s) : s[j] = "\""}
      j == CHOOSE c \in closes : \A d \in closes : c <= d
  IN  IF At(s, i) # "\"" \/ closes = {} THEN NoScan
      ELSE IF \E m \in (i + 1)..(j - 1) : IsControl(s[m]) THEN NoScan
      ELSE Scanned(SubSeq(s, i + 1, j - 1), j + 1)

\* the members of a JSON object from position i, the first character of a key,
\* up to the closing brace; a repeated key keeps its last value
RECURSIVE ScanMembers(_, _, _)
ScanMembers(s, i, items) ==
  LET key == ScanString(s, i)
      colon == SkipSpace(s, key.next)
      value == ScanString(s, SkipSpace(s, colon + 1))
      after == SkipSpace(s, value.next)
  IN  IF ~key.ok \/ At(s, colon) # ":" \/ ~value.ok THEN NoScan
      ELSE IF At(s, after) = ","
        THEN ScanMembers(s, SkipSpace(s, after + 1), Put(items, key.val, value.val))
      ELSE IF At(s, after) = "}"
        THEN Scanned(Put(items, key.val, value.val), after + 1)
      ELSE NoScan

\* a JSON object whose opening brace is at i
ScanObject(s, i) ==
  LET first == SkipSpace(s, i + 1)
  IN  IF At(s, first) = "}" THEN Scanned({}, first + 1)
      ELSE ScanMembers(s, first, {})

\* json.loads(s): one value with nothing but whitespace around it
json_loads(s) ==
  LET i == SkipSpace(s, 1)
      v == IF At(s, i) = "{" THEN ScanObject(s, i)
           ELSE IF At(s, i) = "\"" THEN ScanString(s, i)
           ELSE NoScan
  IN  IF ~v.ok \/ SkipSpace(s, v.next) # Len(s) + 1 THEN Raise("JSONDecodeError")
      ELSE IF At(s, i) = "{" THEN Ok(Dict(v.val))
      ELSE Ok(JStr(v.val))

Backticks == <<Backtick, Backtick, Backtick>>
LanguageTag == <<"j", "s", "o", "n">>

\* lines 35-40: raw after strip() and, for a text that starts with a fence,
\* after the strip of its backticks, replace("json", "") and strip()
Unfenced(raw) ==
  LET stripped == Strip(raw)
  IN  IF StartsWith(stripped, Backticks)
        THEN Strip(Remove(StripChars(stripped, Backtick), LanguageTag))
        ELSE stripped

\* lines 42-54: the direct parse, else the parse of the text from the first
\* "{" to the last "}", else ValueError
parse_extractor_output(raw) ==
  LET cleaned == Unfenced(raw)
      direct == json_loads(cleaned)
      opens == {i \in 1..Len(cleaned) : cleaned[i] = "{"}
      closes == {i \in 1..Len(cleaned) : cleaned[i] = "}"}
      start == CHOOSE i \in opens : \A j \in opens : i <= j
      end == CHOOSE i \in closes : \A j \in closes : i >= j
  IN  IF direct.ok THEN direct
      ELSE IF opens = {} \/ closes = {} THEN Raise("ValueError")
      ELSE IF json_loads(SubSeq(cleaned, start, end)).ok
        THEN json_loads(SubSeq(cleaned, start, end))
      ELSE Raise("ValueError")

\* three backticks and json, a newline, the text, a newline, three backticks
Fenced(t) == Backticks \o LanguageTag \o <<"\n">> \o t \o <<"\n">> \o Backticks

MaxWords == 2

\* what keys and string values are made of: a letter, the language tag and a
\* backtick
Words == {<<"a">>, LanguageTag, <<Backtick>>}

RECURSIVE Concat(_)
Concat(ws) == IF ws = <<>> THEN <<>> ELSE Head(ws) \o Concat(Tail(ws))

StringPool == {Concat(ws) : ws \in SeqsUpTo(Words, MaxWords)}

Quoted(chars) == <<"\"">> \o chars \o <<"\"">>

\* an object of one member written compactly, written with whitespace, written
\* after a word of prose, and cut short
TextPool ==
  UNION {{<<"{">> \o Quoted(key) \o <<":">> \o Quoted(value) \o <<"}">>,
          <<" ", "{", "\n">> \o Quoted(key) \o <<":", " ">> \o Quoted(value)
            \o <<"\n", "}", "\n">>,
          <<"a", " ", "{">> \o Quoted(key) \o <<":">> \o Quoted(value) \o <<"}">>,
          <<"{">> \o Quoted(key) \o <<":">> \o Quoted(value)} :
         key \in StringPool, value \in StringPool}

ParseInit ==
  /\ LoopIdle
  /\ judge_result = EmptyObj
  /\ score_res = NotCalled
  /\ paths = <<>>
  /\ agg_res = NotCalled
  /\ llm_text \in TextPool
  /\ parse_res = NotCalled
  /\ fenced_res = NotCalled

\* parse_extractor_output(T)
ParsePlain ==
  /\ parse_res = NotCalled
  /\ parse_res' = parse_extractor_output(llm_text)
  /\ UNCHANGED <<loopVars, judge_result, score_res, paths, agg_res, llm_text, fenced_res>>

\* parse_extractor_output of T inside a fence
ParseFenced ==
  /\ fenced_res = NotCalled
  /\ fenced_res' = parse_extractor_output(Fenced(llm_text))
  /\ UNCHANGED <<loopVars, judge_result, score_res, paths, agg_res, llm_text, parse_res>>

Parse == ParsePlain \/ ParseFenced

SpecParse == ParseInit /\ [][Parse]_vars

\* C14: for every text T that parses as a JSON object, parse_extractor_output
\* gives the same object for T wrapped in a json code fence as for T itself, also
\* when the keys or string values of T contain "json" or backticks.
C14_FenceTransparent ==
  (/\ parse_res # NotCalled
   /\ fenced_res # NotCalled
   /\ json_loads(llm_text).ok
   /\ json_loads(llm_text).val.k = "dict") =>
    fenced_res = parse_res

\* the answer of answers row i that the scorer is to be given
SuppliedAnswer(i) ==
  LET entry == answers_entries[i]
  IN  IF entry.model_answer # NoAnswer THEN entry.model_answer
      ELSE [k |-> "dict",
            answer |-> IF entry.answer = Absent THEN Str("") ELSE entry.answer,
            rationale |-> IF entry.rationale = Absent THEN Str("")
                          ELSE entry.rationale]

\* row i of results is a zero-score fallback row carrying the message e
IsFallbackFor(i, e) ==
  /\ e # ""
  /\ results[i].scores.correctness_score = Float0
  /\ results[i].scores.rationale_score = Float0
  /\ results[i].scores.correctness_justification = Str("Error: " \o e)
  /\ results[i].scores.rationale_justification = Str("Error: " \o e)
  /\ results[i].metadata.error = Str(e)

FallbackCount(rows) == Cardinality({i \in 1..Len(rows) : HasError(rows[i])})

\* what holds of the result list and the failure counter of evaluate_document
\* at every point of a run
LoopInvariant ==
  mode = "document" =>
    /\ pc \in {"loop", "ask", "score"} => Len(results) = idx - 1
    /\ Len(results) <= Len(questions)
    /\ \A i \in 1..Len(results) :
         IsTrimOf(results[i].question, questions[i].question)
    /\ failures = FallbackCount(results)
    /\ pc = "done" =>
         /\ Len(results) = Len(questions)
         /\ saved = <<results>>
         /\ failures = FallbackCount(saved[1])

\* a step of evaluate_document keeps every row already in the list and adds
\* at most one row at its end
AppendOnly ==
  mode = "document" =>
    /\ Len(results') \in {Len(results), Len(results) + 1}
    /\ \A i \in 1..Len(results) : results'[i] = results[i]

\* C16: in the loop of evaluate_document, after k questions the result list
\* has k rows, row i being the row of question i, and the failure counter is
\* the number of rows with metadata.error; a row once appended is never
\* changed or removed; at the end there is one row per question and the
\* failure count is the number of fallback rows persisted.
C16_ListAndCounter == []LoopInvariant /\ [][AppendOnly]_vars

\* a finished run of two questions, the first failed and the second scored,
\* that reports one failure
C16_Witness ==
  /\ mode = "document"
  /\ pc = "done"
  /\ Len(saved) = 1
  /\ Len(saved[1]) = 2
  /\ HasError(saved[1][1])
  /\ ~HasError(saved[1][2])
  /\ failures = 1

====
